---- MODULE Spec2Model ----
(***************************************************************************)
(* Model of src/lambda_function.py: the credit decision, the fixed-fee     *)
(* amortization schedule, the SES notification and the Lambda handler.     *)
(*                                                                         *)
(* A Python Decimal is modelled as the pair (c, e) of its coefficient and  *)
(* the number of its fractional digits: the value is c * 10^(-e).  The     *)
(* arithmetic below is exact, as Python's is while a result has at most    *)
(* 28 significant digits (getcontext().prec, line 13); every value of the  *)
(* model has fewer than 10.                                                *)
(*                                                                         *)
(* Line 69 of the source reads "if amount > cap_max):" (a stray closing    *)
(* parenthesis).  The model reads it as the comparison it spells,          *)
(* amount > cap_max.                                                       *)
(***************************************************************************)
EXTENDS Integers, Sequences, FiniteSets, TLC

VARIABLES pc, event, decision, i_month, balance, m, schedule,
          ses, response, log, rin, rout

vars == <<pc, event, decision, i_month, balance, m, schedule,
          ses, response, log, rin, rout>>

(***************************************************************************)
(* Bounds of the model.                                                    *)
(***************************************************************************)
MaxTerm == 3
MaxApproved == 2
RoundRange == 30

(***************************************************************************)
(* Decimal values.                                                         *)
(***************************************************************************)
RECURSIVE Pow10(_)
Pow10(n) == IF n = 0 THEN 1 ELSE 10 * Pow10(n - 1)

Abs(n) == IF n < 0 THEN -n ELSE n

Max(a, b) == IF a >= b THEN a ELSE b

Dec(c, e) == [c |-> c, e |-> e]

\* The coefficient of x at e fractional digits (e >= x.e).
Coef(x, e) == x.c * Pow10(e - x.e)

DAdd(x, y) == LET e == Max(x.e, y.e) IN Dec(Coef(x, e) + Coef(y, e), e)

DSub(x, y) == LET e == Max(x.e, y.e) IN Dec(Coef(x, e) - Coef(y, e), e)

DMul(x, y) == Dec(x.c * y.c, x.e + y.e)

DLt(x, y) == LET e == Max(x.e, y.e) IN Coef(x, e) < Coef(y, e)

DLe(x, y) == LET e == Max(x.e, y.e) IN Coef(x, e) <= Coef(y, e)

DGt(x, y) == DLt(y, x)

DEq(x, y) == LET e == Max(x.e, y.e) IN Coef(x, e) = Coef(y, e)

\* x / Decimal(12) for an x whose twelfth is a terminating decimal
\* (x.c a multiple of 3): x/12 = (x.c/3) * 25 / 100.  The annual rates of the
\* model are all of this kind, so the 28-digit rounding of the quotient
\* never acts.
DDiv12(x) == Dec((x.c \div 3) * 25, x.e + 2)

(***************************************************************************)
(* Utility functions (lines 17-29).                                        *)
(***************************************************************************)
\* n / d rounded to the nearest integer, ties toward plus infinity.
HalfCeilDiv(n, d) == (2 * n + d) \div (2 * d)

\* n / d rounded to the nearest integer, ties away from zero
\* (ROUND_HALF_UP), for d > 0.
HalfUpDiv(n, d) == IF n >= 0 THEN (2 * n + d) \div (2 * d)
                             ELSE -((2 * (-n) + d) \div (2 * d))

\* x.quantize(Decimal("0.01"), rounding=ROUND_HALF_UP): two fractional
\* digits, padded with zeros when x has fewer.
round2(x) == IF x.e <= 2 THEN Dec(x.c * Pow10(2 - x.e), 2)
                         ELSE Dec(HalfUpDiv(x.c, Pow10(x.e - 2)), 2)

\* The outcome of a call: a value, or the exception it raised.
Ok(v) == [exc |-> "none", val |-> v]

Raise(x) == [exc |-> x, val |-> Dec(0, 0)]

\* A field of the request: present with the text of a decimal (k = "ok"),
\* present with a text that is no decimal literal (k = "invalid"), or
\* absent (k = "missing").
Field(k, c, e) == [k |-> k, c |-> c, e |-> e]

Val(c, e) == Field("ok", c, e)

Missing == Field("missing", 0, 0)

Invalid == Field("invalid", 0, 0)

\* D(obj[key]): obj[key] raises KeyError when the key is absent, and
\* Decimal(str(v)) raises decimal.InvalidOperation (an ArithmeticError, not
\* a ValueError) when the text is no decimal literal.
D(f) == CASE f.k = "missing" -> Raise("KeyError")
          [] f.k = "invalid" -> Raise("InvalidOperation")
          [] OTHER -> Ok(Dec(f.c, f.e))

\* int(la["term"]): KeyError when absent, ValueError when not an integer.
IntOf(f) == CASE f.k = "missing" -> Raise("KeyError")
              [] f.k = "invalid" -> Raise("ValueError")
              [] OTHER -> [exc |-> "none", val |-> f.c]

\* D(la.get("annualInterestRate", "0")).
DRate(f) == IF f.k = "missing" THEN Ok(Dec(0, 0)) ELSE D(f)

\* float(x): the double nearest to x.  A double keeps the value and not the
\* exponent (float(Decimal("1.50")) is 1.5), so it is modelled by the
\* decimal of the same value with no trailing zero; the values of the model
\* are far below 2^53 / 100, where this is one to one on cent values.
RECURSIVE ToFloat(_)
ToFloat(x) == IF x.e > 0 /\ x.c % 10 = 0 THEN ToFloat(Dec(x.c \div 10, x.e - 1))
                                         ELSE x

(***************************************************************************)
(* Business logic (lines 34-75).                                           *)
(***************************************************************************)
\* sum(D(approved["monthlyDebt"]) for approved in approved_list), from the
\* left; the first element that raises ends it.
RECURSIVE SumDebts(_, _)
SumDebts(list, acc) ==
    IF list = <<>> THEN Ok(acc)
    ELSE LET d == D(Head(list))
         IN IF d.exc # "none" THEN d ELSE SumDebts(Tail(list), DAdd(acc, d.val))

\* Lines 66-75, with < at line 66.
DecideStrict(monthly_new, amount, cap_max, cap_disp) ==
    IF DLt(monthly_new, cap_disp)
    THEN IF DGt(amount, cap_max) THEN "MANUAL_REVIEW" ELSE "APPROVED"
    ELSE "REJECTED"

\* Lines 66-75, with the manual-review test against cap_disp.
DecideAvail(monthly_new, amount, cap_max, cap_disp) ==
    IF DLe(monthly_new, cap_disp)
    THEN IF DGt(amount, cap_disp) THEN "MANUAL_REVIEW" ELSE "APPROVED"
    ELSE "REJECTED"

\* Lines 66-75: the decision logic.
Decide(monthly_new, amount, cap_max, cap_disp) ==
    IF DLe(monthly_new, cap_disp)
    THEN IF DGt(amount, cap_max) THEN "MANUAL_REVIEW" ELSE "APPROVED"
    ELSE "REJECTED"

compute_decision(payload) ==
    LET la == payload.la
        approved_list == payload.approved
        base_salary == D(la.baseSalary)
        amount == D(la.amount)
        monthly_new == D(la.monthlyDebt)
        cap_max == round2(DMul(base_salary.val, Dec(35, 2)))
        total == IF approved_list # <<>> THEN SumDebts(approved_list, Dec(0, 0))
                                         ELSE Ok(Dec(0, 0))
        current_debt == round2(total.val)
        cap_disp == round2(DSub(cap_max, current_debt))
    IN CASE base_salary.exc # "none" -> Raise(base_salary.exc)
         [] amount.exc # "none" -> Raise(amount.exc)
         [] monthly_new.exc # "none" -> Raise(monthly_new.exc)
         [] total.exc # "none" -> Raise(total.exc)
         [] OTHER -> Ok(Decide(monthly_new.val, amount.val, cap_max, cap_disp))

(***************************************************************************)
(* Amortization schedule (lines 78-115).                                   *)
(***************************************************************************)
\* Line 90.
MonthlyRate(annual_rate) ==
    IF annual_rate.c # 0 THEN DDiv12(annual_rate) ELSE Dec(0, 0)

\* Lines 95-103: the interest, the principal and the new balance of a month.
MonthStep(bal, rate, fixed_monthly_fee) ==
    LET interest == round2(DMul(bal, rate))
        p0 == DSub(fixed_monthly_fee, interest)
        p1 == IF DLt(p0, Dec(0, 0)) THEN Dec(0, 0) ELSE p0
        p2 == IF DGt(p1, bal) THEN bal ELSE p1
        principal == round2(p2)
    IN [interest |-> interest, principal |-> principal,
        balance |-> round2(DSub(bal, principal))]

\* Lines 105-110.
Entry(month, step) ==
    [month |-> month, interest |-> ToFloat(step.interest),
     principal |-> ToFloat(step.principal), remaining |-> ToFloat(step.balance)]

\* Line 112, with < for <=.
PaidOffStrict(bal) == DLt(bal, Dec(0, 2))

\* Line 112: the balance that ends the loop.
PaidOff(bal) == DLe(bal, Dec(0, 2))

(***************************************************************************)
(* HTTP response (lines 162-176) and the handler's except clauses          *)
(* (lines 231-239).                                                        *)
(***************************************************************************)
Response(status, body) == [statusCode |-> status, body |-> body]

NoResponse == Response(0, <<>>)

ClientFaults == {"KeyError", "TypeError", "ValueError"}

ExceptResponse(exc) ==
    IF exc \in ClientFaults THEN Response(400, <<"error", "Bad Request">>)
                            ELSE Response(500, <<"error", "Internal Error">>)

ExceptLog(exc) ==
    IF exc \in ClientFaults THEN "warning: Bad request" ELSE "exception: Internal error"

(***************************************************************************)
(* Requests.                                                               *)
(***************************************************************************)
Salaries == {Val(1000, 2), Val(1030, 2)}

Amounts == {Val(100, 2), Val(1005, 3), Val(350, 2), Val(351, 2)}

Installments == {Val(0, 0), Val(50, 2), Val(150, 2), Val(3605, 3)}

Terms == {Val(t, 0) : t \in (-1)..MaxTerm}

\* Annual rates: 0, 12 %, 1200 % (a monthly rate of 1) and -12 %.
Rates == {Val(0, 0), Val(12, 2), Val(1200, 2), Val(-12, 2)}

ApprovedDebts == {Val(200, 2), Val(5, 3)}

RECURSIVE SeqsUpTo(_, _)
SeqsUpTo(S, n) ==
    IF n = 0 THEN {<<>>}
    ELSE LET shorter == SeqsUpTo(S, n - 1)
         IN shorter \cup {Append(q, x) : q \in shorter, x \in S}

ApprovedLists == SeqsUpTo(ApprovedDebts, MaxApproved)

LaFields == {"baseSalary", "amount", "monthlyDebt", "term", "annualInterestRate"}

\* What is wrong with a request: nothing, or one field, or one approved
\* loan's monthlyDebt, absent or not a decimal literal.
Faults ==
    {[on |-> "none", at |-> 0, as |-> Missing]}
    \cup {[on |-> f, at |-> 0, as |-> b] : f \in LaFields, b \in {Missing, Invalid}}
    \cup {[on |-> "approved", at |-> i, as |-> b] :
              i \in 1..MaxApproved, b \in {Missing, Invalid}}

Corrupt(payload, fault) ==
    CASE fault.on = "none" -> payload
      [] fault.on = "approved" ->
           IF fault.at <= Len(payload.approved)
           THEN [payload EXCEPT !.approved[fault.at] = fault.as]
           ELSE payload
      [] OTHER -> [payload EXCEPT !.la[fault.on] = fault.as]

EmptyPayload ==
    [la |-> [baseSalary |-> Missing, amount |-> Missing, monthlyDebt |-> Missing,
             term |-> Missing, annualInterestRate |-> Missing],
     approved |-> <<>>]

\* round2 is also exercised on its own, on c * 10^(-e) for every c within
\* RoundRange of 0 and of the values the documentation names.
RoundCentres == {0, 123450, -123450}

RoundInputs ==
    {Dec(k + d, e) : k \in RoundCentres, d \in (-RoundRange)..RoundRange, e \in 0..3}

NoDec == [c |-> 0, e |-> 0, k |-> "none"]

(***************************************************************************)
(* The handler (lines 181-239), one action per step.                       *)
(***************************************************************************)
Init ==
    /\ pc = "idle"
    /\ event = [httpMethod |-> "OPTIONS", payload |-> EmptyPayload]
    /\ decision = ""
    /\ i_month = Dec(0, 0)
    /\ balance = Dec(0, 0)
    /\ m = 0
    /\ schedule = <<>>
    /\ ses = "none"
    /\ response = NoResponse
    /\ log = <<>>
    /\ rin = Dec(0, 0)
    /\ rout = NoDec

\* An invocation starts from nothing: the handler keeps no state of an
\* earlier one, so one invocation from the idle state stands for each.
Fresh ==
    /\ decision' = ""
    /\ i_month' = Dec(0, 0)
    /\ balance' = Dec(0, 0)
    /\ m' = 0
    /\ schedule' = <<>>
    /\ ses' = "none"
    /\ response' = NoResponse
    /\ log' = <<>>
    /\ UNCHANGED <<rin, rout>>

InvokePost ==
    /\ pc = "idle"
    /\ \E bs \in Salaries, am \in Amounts, md \in Installments, tm \in Terms,
          rt \in Rates, ap \in ApprovedLists, f \in Faults :
         event' = [httpMethod |-> "POST",
                   payload |-> Corrupt([la |-> [baseSalary |-> bs, amount |-> am,
                                                monthlyDebt |-> md, term |-> tm,
                                                annualInterestRate |-> rt],
                                        approved |-> ap], f)]
    /\ pc' = "start"
    /\ Fresh

InvokeOptions ==
    /\ pc = "idle"
    /\ event' = [httpMethod |-> "OPTIONS", payload |-> EmptyPayload]
    /\ pc' = "start"
    /\ Fresh

\* Lines 192-193.
Preflight ==
    /\ pc = "start"
    /\ event.httpMethod = "OPTIONS"
    /\ response' = Response(200, <<"ok", "true">>)
    /\ pc' = "done"
    /\ UNCHANGED <<event, decision, i_month, balance, m, schedule, ses, log, rin, rout>>

\* An exception reaches the handler's except clauses (lines 231-239).
Fail(exc) ==
    /\ response' = ExceptResponse(exc)
    /\ log' = Append(log, ExceptLog(exc))
    /\ pc' = "done"

\* Line 201.
ComputeDecision ==
    /\ pc = "start"
    /\ event.httpMethod # "OPTIONS"
    /\ LET r == compute_decision(event.payload)
       IN IF r.exc = "none"
          THEN /\ decision' = r.val
               /\ pc' = "prepare"
               /\ UNCHANGED <<response, log>>
          ELSE /\ Fail(r.exc)
               /\ UNCHANGED decision
    /\ UNCHANGED <<event, i_month, balance, m, schedule, ses, rin, rout>>

\* Lines 204-209, and the call at 211 up to the loop (lines 90-92).
StartSchedule ==
    /\ pc = "prepare"
    /\ LET la == event.payload.la
           amount == D(la.amount)
           term == IntOf(la.term)
           annual == DRate(la.annualInterestRate)
           monthly_fee == D(la.monthlyDebt)
           bad == CASE amount.exc # "none" -> amount.exc
                    [] term.exc # "none" -> term.exc
                    [] annual.exc # "none" -> annual.exc
                    [] monthly_fee.exc # "none" -> monthly_fee.exc
                    [] OTHER -> "none"
       IN IF bad = "none"
          THEN /\ i_month' = MonthlyRate(annual.val)
               /\ balance' = amount.val
               /\ pc' = IF term.val >= 1 THEN "loop" ELSE "email"
               /\ UNCHANGED <<response, log>>
          ELSE /\ Fail(bad)
               /\ UNCHANGED <<i_month, balance>>
    /\ m' = 0
    /\ schedule' = <<>>
    /\ UNCHANGED <<event, decision, ses, rin, rout>>

\* Lines 94-113: one iteration of the loop; the loop ends with the term or
\* with the break of line 113.
ScheduleMonth ==
    /\ pc = "loop"
    /\ LET la == event.payload.la
           step == MonthStep(balance, i_month, D(la.monthlyDebt).val)
       IN /\ m' = m + 1
          /\ balance' = step.balance
          /\ schedule' = Append(schedule, Entry(m + 1, step))
          /\ pc' = IF PaidOff(step.balance) \/ m + 1 >= la.term.c THEN "email"
                                                                   ELSE "loop"
    /\ UNCHANGED <<event, decision, i_month, ses, response, log, rin, rout>>

\* Line 129: boto3.client(...) is called outside the try of line 143; an
\* exception of it (a botocore error) reaches the handler.
SesClient ==
    /\ pc = "email"
    /\ \E ok \in BOOLEAN :
         IF ok
         THEN /\ ses' = "client"
              /\ pc' = "send"
              /\ UNCHANGED <<response, log>>
         ELSE /\ ses' = "client_failed"
              /\ Fail("BotoCoreError")
    /\ UNCHANGED <<event, decision, i_month, balance, m, schedule, rin, rout>>

\* Lines 143-157, and the return of line 229.
SesSend ==
    /\ pc = "send"
    /\ \E ok \in BOOLEAN :
         IF ok
         THEN /\ ses' = "sent"
              /\ log' = Append(log, "info: SES email sent")
         ELSE /\ ses' = "send_failed"
              /\ log' = Append(log, "warning: SES send failed")
    /\ response' = Response(200, <<"status", decision>>)
    /\ pc' = "done"
    /\ UNCHANGED <<event, decision, i_month, balance, m, schedule, rin, rout>>

Next ==
    \/ InvokePost
    \/ InvokeOptions
    \/ Preflight
    \/ ComputeDecision
    \/ StartSchedule
    \/ ScheduleMonth
    \/ SesClient
    \/ SesSend

Spec == Init /\ [][Next]_vars

(***************************************************************************)
(* round2 on its own.                                                      *)
(***************************************************************************)
InitRound ==
    /\ pc = "idle"
    /\ event = [httpMethod |-> "OPTIONS", payload |-> EmptyPayload]
    /\ decision = ""
    /\ i_month = Dec(0, 0)
    /\ balance = Dec(0, 0)
    /\ m = 0
    /\ schedule = <<>>
    /\ ses = "none"
    /\ response = NoResponse
    /\ log = <<>>
    /\ rin \in RoundInputs
    /\ rout = NoDec

ApplyRound2 ==
    /\ rout.k = "none"
    /\ rout' = [c |-> round2(rin).c, e |-> round2(rin).e, k |-> "rounded"]
    /\ UNCHANGED <<pc, event, decision, i_month, balance, m, schedule,
                   ses, response, log, rin>>

NextRound == ApplyRound2

SpecRound == InitRound /\ [][NextRound]_vars

(***************************************************************************)
(* The properties.  The quantities they speak of are read from the request *)
(* and from the handler's results.                                         *)
(***************************************************************************)
La == event.payload.la

AsDec(f) == Dec(f.c, f.e)

Zero == Dec(0, 2)

\* The request's required fields are all present and decimal literals.
RequiredOk ==
    /\ La.baseSalary.k = "ok"
    /\ La.amount.k = "ok"
    /\ La.monthlyDebt.k = "ok"
    /\ \A i \in 1..Len(event.payload.approved) : event.payload.approved[i].k = "ok"

RECURSIVE DebtTotal(_)
DebtTotal(list) ==
    IF list = <<>> THEN Dec(0, 0) ELSE DAdd(AsDec(Head(list)), DebtTotal(Tail(list)))

capacityMax == round2(DMul(AsDec(La.baseSalary), Dec(35, 2)))

currentDebt == round2(DebtTotal(event.payload.approved))

capacityAvailable == round2(DSub(capacityMax, currentDebt))

\* compute_decision has returned.
Decided == decision # ""

\* build_amortization_schedule_using_fixed_fee has returned its schedule.
Scheduled == pc \in {"email", "send"} \/ ses # "none"

AnnualRate == IF La.annualInterestRate.k = "ok" THEN AsDec(La.annualInterestRate)
                                                ELSE Dec(0, 0)

\* principal > 0, termMonths >= 1, annualRate >= 0, fixedMonthlyInstallment >= 0.
ValidInputs ==
    /\ RequiredOk
    /\ La.term.k = "ok"
    /\ La.annualInterestRate.k # "invalid"
    /\ DGt(AsDec(La.amount), Zero)
    /\ La.term.c >= 1
    /\ DLe(Zero, AnnualRate)
    /\ DLe(Zero, AsDec(La.monthlyDebt))

\* The balance entering month i: the opening principal, then the remaining
\* of the entry before.
Entering(i) == IF i = 1 THEN AsDec(La.amount) ELSE schedule[i - 1].remaining

LastRemaining == schedule[Len(schedule)].remaining

\* C1: compute_decision returns REJECTED if and only if the application's
\* monthlyDebt is strictly greater than capacityAvailable =
\* round2(round2(baseSalary * 0.35) - round2(sum of the approved monthlyDebt));
\* an installment equal to capacityAvailable is not rejected.
C1_RejectedIffOverCapacity ==
    Decided =>
        (decision = "REJECTED" <=> DGt(AsDec(La.monthlyDebt), capacityAvailable))

\* C1 witness: a decision on an installment exactly equal to the available
\* capacity, with approved loans to subtract.
C1_Witness ==
    /\ Decided
    /\ event.payload.approved # <<>>
    /\ DEq(AsDec(La.monthlyDebt), capacityAvailable)
    /\ decision # "REJECTED"

C3_AsStated ==
    (Scheduled /\ ValidInputs) =>
        /\ Len(schedule) <= La.term.c
        /\ Len(schedule) >= 1
        /\ DLe(LastRemaining, Zero)

\* C3, amended: for valid inputs the schedule has between 1 and termMonths
\* entries, every entry before the last has a remaining > 0.00, and a
\* schedule shorter than termMonths ends with a remaining <= 0.00 (one of
\* termMonths entries may end with a positive remaining).
C3_EndsAtPayoffOrTerm ==
    (Scheduled /\ ValidInputs) =>
        /\ Len(schedule) <= La.term.c
        /\ Len(schedule) >= 1
        /\ \A i \in 1..(Len(schedule) - 1) : DGt(schedule[i].remaining, Zero)
        /\ Len(schedule) < La.term.c => DLe(LastRemaining, Zero)

\* C3 witness: a schedule of several months paid off before its term.
C3_Witness ==
    /\ Scheduled
    /\ ValidInputs
    /\ Len(schedule) >= 2
    /\ Len(schedule) < La.term.c
    /\ DEq(LastRemaining, Zero)

\* C4: in every schedule (here: of valid inputs), every entry's principal is
\* at most the balance entering the month, its remaining is never negative
\* and is at most the remaining of the entry before (the opening balance for
\* the first entry).
C4_PrincipalWithinBalance ==
    (Scheduled /\ ValidInputs) =>
        \A i \in 1..Len(schedule) :
            /\ DLe(schedule[i].principal, Entering(i))
            /\ DLe(Zero, schedule[i].remaining)
            /\ DLe(schedule[i].remaining, Entering(i))

\* C5: build_amortization_schedule_using_fixed_fee returns no schedule when
\* termMonths <= 0 or annualRate < 0.
C5_RejectsBadTermOrRate ==
    (RequiredOk /\ La.term.k = "ok" /\ La.annualInterestRate.k # "invalid"
       /\ (La.term.c <= 0 \/ DLt(AnnualRate, Zero)))
    => ~Scheduled

\* C6: a request with a required field absent or not a decimal literal is
\* answered with status 400, never 500, and with no decision.
C6_BadFieldIsClientFault ==
    (event.httpMethod = "POST" /\ ~RequiredOk /\ pc = "done") =>
        /\ response.statusCode = 400
        /\ response.body[1] # "status"

\* C7: once the decision and the schedule are computed (here: of a request
\* with valid inputs), a failure of the email dispatch, in whichever step,
\* leaves the response 200 with the decision of compute_decision, and is
\* logged.
C7_EmailFailureKeepsDecision ==
    (pc = "done" /\ ValidInputs /\ ses \in {"client_failed", "send_failed"}) =>
        /\ response = Response(200, <<"status", decision>>)
        /\ \E i \in 1..Len(log) : log[i] = "warning: SES send failed"

\* C8: round2 gives two fractional digits, the nearest such value, and of
\* two equally near ones the one away from zero; round2(123.455) = 123.46,
\* round2(123.454) = 123.45, round2(-123.455) = -123.46, round2(-0.005) = -0.01.
C8_Round2HalfAwayFromZero ==
    rout.k = "rounded" =>
        LET e == Max(rin.e, 2)
            x == rin.c * Pow10(e - rin.e)
            q == rout.c * Pow10(e - 2)
            cent == Pow10(e - 2)
        IN /\ rout.e = 2
           /\ 2 * Abs(q - x) <= cent
           /\ 2 * Abs(q - x) = cent => Abs(q) > Abs(x)
           /\ rin = Dec(123455, 3) => rout.c = 12346
           /\ rin = Dec(123454, 3) => rout.c = 12345
           /\ rin = Dec(-123455, 3) => rout.c = -12346
           /\ rin = Dec(-5, 3) => rout.c = -1

\* C8 witness: a negative tie has been rounded.
C8_Witness ==
    /\ rin = Dec(-123455, 3)
    /\ rout.k = "rounded"
    /\ rout.c = -12346

\* C9: in every schedule (here: of valid inputs), remaining[i] =
\* remaining[i-1] - principal[i] exactly, remaining[0] being the opening
\* principal.
C9_RemainingIsBalanceMinusPrincipal ==
    (Scheduled /\ ValidInputs) =>
        \A i \in 1..Len(schedule) :
            DEq(schedule[i].remaining, DSub(Entering(i), schedule[i].principal))

\* C10: in any month whose accrued interest exceeds the fixed installment,
\* the principal is 0.00 and the remaining equals the balance entering the
\* month.
C10_FrozenWhenFeeBelowInterest ==
    (Scheduled /\ ValidInputs) =>
        \A i \in 1..Len(schedule) :
            DLt(AsDec(La.monthlyDebt), schedule[i].interest) =>
                /\ DEq(schedule[i].principal, Zero)
                /\ DEq(schedule[i].remaining, Entering(i))

====
